---- MODULE Spec2Model ----
(***************************************************************************)
(* Model of deskcnc_serial.py: the DeskCNC serial session (restart, reset, *)
(* firmware load), the command executor (executeCommand / machineReady)    *)
(* and the modal G-code translator (ModalGCodeParser).                     *)
(*                                                                         *)
(* Lengths are integer millimetres; a frame is the sequence of bytes that  *)
(* is written to the serial port.  The device, the port and the operator   *)
(* (KeyboardInterrupt) are the environment: their answers are chosen       *)
(* nondeterministically at the step that reads them.                       *)
(*                                                                         *)
(* Spec is the whole program; SpecLive is Spec with the fairness of the    *)
(* bring-up loop; SpecPure applies applyWord and encodeFeedrate alone.     *)
(***************************************************************************)
EXTENDS Integers, Sequences, FiniteSets, TLC

\* ------------------------------------------------------------------ bounds
MaxPos == 1        \* |posX|, |posY|, |posZ| stay within this many mm
MaxGcodes == 2     \* gcodes dispatched by parseLine in one run
MaxWordPos == 10   \* |pos| stays within this many mm where applyWord runs alone

\* --------------------------------------------------------- program constants
MIN_FEEDRATE == 62500
MAX_FEEDRATE == 1250
FEED_K == 3378400
FEED_LIMIT == 1620
DEFAULT_FEEDRATE == 300
MAX_RETRY == 2
\* float("inf") of G0: any divisor for which 3378400 / val truncates to 0
INF_FEEDRATE == 3378401

\* ------------------------------------------------------------- frame codec
Zeros(n) == [i \in 1..n |-> 0]

RECURSIVE Xor(_, _)
Xor(a, b) ==
    IF a = 0 THEN b
    ELSE IF b = 0 THEN a
    ELSE (((a % 2) + (b % 2)) % 2) + 2 * Xor(a \div 2, b \div 2)

RECURSIVE XorFold(_, _)
XorFold(bytes, cs) ==
    IF bytes = <<>> THEN cs ELSE XorFold(Tail(bytes), Xor(cs, Head(bytes)))

\* variant: the loop starts at the second byte
checksum_SkipFirst(command) == <<XorFold(Tail(command), 0)>>

checksum(command) == <<XorFold(command, 0)>>

\* int(): truncation toward zero of a / b, b > 0
IntTrunc(a, b) == IF a >= 0 THEN a \div b ELSE -((-a) \div b)

\* to_bytes(k, byteorder="little"): two's complement for negative n
ToBytesLE(n, k) == [i \in 1..k |-> (n \div (256 ^ (i - 1))) % 256]

\* val in mm; 1 step = 0.015 mm, so val / 0.015 = 200 * val / 3
encodeValueMM(val) == ToBytesLE(IntTrunc(200 * val, 3), 4)

Clip(num, lo, hi) == IF num < lo THEN lo ELSE IF num > hi THEN hi ELSE num

\* variant: the quotient is rounded to the nearest integer
encodeFeedrate_Round(val) ==
    ToBytesLE(Clip((2 * FEED_K + val) \div (2 * val), MAX_FEEDRATE, MIN_FEEDRATE), 2)

encodeFeedrate(val) ==
    ToBytesLE(Clip(IntTrunc(FEED_K, val), MAX_FEEDRATE, MIN_FEEDRATE), 2)

COM_RESET == <<64, 82>> \o Zeros(14) \o <<1, 1>> \o Zeros(5) \o <<18>>

ReadyCommand == <<64, 87>> \o Zeros(14) \o <<1, 1>> \o Zeros(5)
ReadyMsg == ReadyCommand \o checksum(ReadyCommand)

G0Command(x, y, z) ==
    <<64, 78>> \o encodeValueMM(-x) \o encodeValueMM(y) \o encodeValueMM(z)
        \o encodeFeedrate(INF_FEEDRATE) \o <<219, 0>> \o Zeros(5)

G1Command(x, y, z, f) ==
    <<64, 77>> \o encodeValueMM(-x) \o encodeValueMM(y) \o encodeValueMM(z)
        \o encodeFeedrate(f) \o Zeros(7)

SpindleCommand(state) ==
    <<64, 79>> \o Zeros(14) \o <<2>> \o <<state>> \o Zeros(5)

\* --------------------------------------------------------------- the input
\* The external parser (pygcode) hands over typed words and gcodes.  A word
\* is a letter with a value; a gcode has a kind, its parameter words and,
\* for the feed-rate gcode F, the value of its own word.
FeedVals == {1000, 1621}
WordX(v) == [letter |-> "X", value |-> v]
WordY(v) == [letter |-> "Y", value |-> v]
WordZ(v) == [letter |-> "Z", value |-> v]

\* the parameter words of one gcode, or the bare words of one line: at most
\* one word per letter (gcode.params is a dict keyed by letter)
ParamSeqs == {<<>>, <<WordX(1)>>, <<WordY(1)>>, <<WordX(-1), WordZ(-1)>>}

MotionKinds == {"G0", "G1"}
\* variant: G20 logs like G21 and returns
NotImplemented_NoG20 == {"G2", "G3", "G18", "G19"}
NotImplemented == {"G2", "G3", "G18", "G19", "G20"}
NoDeviceAction == {"G17", "G21", "G94", "M9", "other"}
DistanceKinds == {"G90", "G91"}
SpindleKinds == {"M3", "M4", "M5"}

Gcodes ==
    [kind : MotionKinds, params : ParamSeqs, value : {0}]
    \cup [kind : {"F"}, params : {<<>>}, value : FeedVals]
    \cup [kind : {"G2", "G3", "G17", "G18", "G19", "G20", "G21", "G90", "G91",
                  "G94", "M3", "M4", "M5", "M9", "other"},
          params : {<<>>}, value : {0}]

NoGcode == [kind |-> "none", params |-> <<>>, value |-> 0]

\* ---------------------------------------------------------------- the state
VARIABLES
    pc,                     \* position of the single thread of control
    is_open, resetOk, fwOk, \* DeskCNC._ser.is_open; handshake done on this connection
    rret,                   \* caller of restart_device: "init" or "recover"
    posX, posY, posZ,
    offsetX, offsetY, offsetZ,
    feedrate, mode, absolutepositionmode, spindleOn,
    ngcodes,                \* gcodes dispatched so far
    lineEmpty,              \* no gcode of the current line dispatched yet
    gcode, kont,            \* gcode of executeGCode; where parseLine continues
    reattempt,              \* executeGCode runs as the call made by its except clause
    ctx,                    \* "try": call inside the try block; "handler": inside except
    command, count, response,   \* locals of executeCommand
    lastFrame,              \* last frame written to the serial port
    tx, nack,               \* writes / wrong acknowledgements of this execute call
    unconfirmed,            \* a command frame awaits its 'done' status answer
    posAtFault,             \* position when the last exception was raised
    handling, recovered,    \* an exception is being handled; one has been recovered
    err,                    \* last exception raised while dispatching this gcode
    stoppedAt               \* pc at which KeyboardInterrupt arrived

modal == <<posX, posY, posZ, feedrate, mode, absolutepositionmode, spindleOn>>
offs == <<offsetX, offsetY, offsetZ>>
serv == <<is_open, resetOk, fwOk>>
inp == <<ngcodes, lineEmpty, gcode, kont, reattempt>>
exe == <<command, count, response, ctx>>
obs == <<lastFrame, tx, nack, unconfirmed, posAtFault, handling, recovered,
         err>>
vars == <<pc, rret, modal, offs, serv, inp, exe, obs, stoppedAt>>

Terminal == {"done", "stopped", "crashed_serial", "crashed_unsupported"}
RestartPcs == {"rs_close", "rs_loop", "rs_open", "rs_reset", "rs_fw",
               "rs_except", "rec_offset"}
ExecPcs == {"ex_write", "ex_ack", "ex_poll", "ex_ret"}

\* ModalGCodeParser.__init__ has run; DeskCNC.__init__ is about to call
\* restart_device
Init ==
    /\ pc = "rs_close" /\ rret = "init"
    /\ is_open = FALSE /\ resetOk = FALSE /\ fwOk = FALSE
    /\ posX = 0 /\ posY = 0 /\ posZ = 0
    /\ offsetX = 0 /\ offsetY = 0 /\ offsetZ = 0
    /\ feedrate = DEFAULT_FEEDRATE
    /\ mode = "G1"
    /\ absolutepositionmode = TRUE
    /\ spindleOn = FALSE
    /\ ngcodes = 0 /\ lineEmpty = TRUE /\ gcode = NoGcode /\ kont = "loop"
    /\ reattempt = FALSE
    /\ ctx = "try" /\ command = <<>> /\ count = 0 /\ response = "none"
    /\ lastFrame = <<>> /\ tx = 0 /\ nack = 0 /\ unconfirmed = FALSE
    /\ posAtFault = <<0, 0, 0>> /\ handling = FALSE /\ recovered = FALSE
    /\ err = "none"
    /\ stoppedAt = "none"

\* ------------------------------------------------- DeskCNC.restart_device
\* self._ser.close()
RestartClose ==
    /\ pc = "rs_close"
    /\ is_open' = FALSE /\ resetOk' = FALSE /\ fwOk' = FALSE
    /\ pc' = "rs_loop"
    /\ UNCHANGED <<rret, modal, offs, inp, exe, obs, stoppedAt>>

\* while not self._ser.is_open: ... ; log.info('Ready') and return
RestartLoop ==
    /\ pc = "rs_loop"
    /\ IF ~is_open
       THEN /\ pc' = "rs_open"
            /\ UNCHANGED unconfirmed
       ELSE /\ pc' = IF rret = "init" THEN "run_next" ELSE "rec_offset"
            /\ unconfirmed' = FALSE
    /\ UNCHANGED <<rret, modal, offs, serv, inp, exe, stoppedAt, lastFrame,
                   tx, nack, posAtFault, handling, recovered, err>>

\* self._ser.open(): succeeds or raises SerialException / OSError
RestartOpen ==
    /\ pc = "rs_open"
    /\ \E ok \in BOOLEAN :
        IF ok THEN /\ is_open' = TRUE /\ resetOk' = FALSE /\ fwOk' = FALSE
                   /\ pc' = "rs_reset"
        ELSE /\ pc' = "rs_except" /\ UNCHANGED serv
    /\ UNCHANGED <<rret, modal, offs, inp, exe, obs, stoppedAt>>

\* variant: the reset loop never ends
AfterReset_Never(ok) == "rs_reset"

\* variant: reset() called once, its result ignored
AfterReset_Once(ok) == "rs_fw"

\* where the reset loop goes after one call of reset()
AfterReset(ok) == IF ok THEN "rs_fw" ELSE "rs_reset"

\* while not self.reset(): pass
\* reset() writes COM_RESET and compares the tail of the answer; the write or
\* the read may raise SerialException
Reset ==
    /\ pc = "rs_reset"
    /\ \E out \in {"ok", "mismatch", "ioerror"} :
        IF out = "ioerror"
        THEN /\ pc' = "rs_except" /\ UNCHANGED <<serv, lastFrame>>
        ELSE /\ lastFrame' = COM_RESET
             /\ resetOk' = (resetOk \/ out = "ok")
             /\ pc' = AfterReset(out = "ok")
             /\ UNCHANGED <<is_open, fwOk>>
    /\ UNCHANGED <<rret, modal, offs, inp, exe, stoppedAt, tx, nack,
                   unconfirmed, posAtFault, handling, recovered, err>>

\* variant: a failed firmware load starts again with the reset
AfterFirmware_Restart(ok) == IF ok THEN "rs_loop" ELSE "rs_reset"

\* where the firmware loop goes after one call of send_firmware()
AfterFirmware(ok) == IF ok THEN "rs_loop" ELSE "rs_fw"

\* while not self.send_firmware(): pass
\* send_firmware() reads the two files (OSError), writes the image in chunks
\* (SerialException) and compares the accumulated answer
SendFirmware ==
    /\ pc = "rs_fw"
    /\ \E out \in {"ok", "mismatch", "ioerror"} :
        IF out = "ioerror"
        THEN /\ pc' = "rs_except" /\ UNCHANGED serv
        ELSE /\ fwOk' = (fwOk \/ (out = "ok" /\ resetOk))
             /\ pc' = AfterFirmware(out = "ok")
             /\ UNCHANGED <<is_open, resetOk>>
    /\ UNCHANGED <<rret, modal, offs, inp, exe, obs, stoppedAt>>

\* variant: the except clause leaves the port as it is
RestartExcept_NoClose ==
    /\ pc = "rs_except"
    /\ pc' = "rs_loop"
    /\ UNCHANGED <<rret, modal, offs, serv, inp, exe, obs, stoppedAt>>

\* except (serial.SerialException, OSError): close(); time.sleep(2)
RestartExcept ==
    /\ pc = "rs_except"
    /\ is_open' = FALSE /\ resetOk' = FALSE /\ fwOk' = FALSE
    /\ pc' = "rs_loop"
    /\ UNCHANGED <<rret, modal, offs, inp, exe, obs, stoppedAt>>

\* ---------------------------------------------------- ModalGCodeParser
ModalRec == [posX |-> posX, posY |-> posY, posZ |-> posZ, feedrate |-> feedrate]

\* variant: the axis letters replace in incremental mode too
applyWord_Replace(st, absolute, word) ==
    CASE word.letter = "X" -> [st EXCEPT !.posX = word.value]
      [] word.letter = "Y" -> [st EXCEPT !.posY = word.value]
      [] word.letter = "Z" -> [st EXCEPT !.posZ = word.value]
      [] word.letter = "F" -> [st EXCEPT !.feedrate = word.value]
      [] OTHER -> st

\* variant: in incremental mode F is added like the axis letters
applyWord_FeedAdds(st, absolute, word) ==
    IF absolute
    THEN CASE word.letter = "X" -> [st EXCEPT !.posX = word.value]
           [] word.letter = "Y" -> [st EXCEPT !.posY = word.value]
           [] word.letter = "Z" -> [st EXCEPT !.posZ = word.value]
           [] word.letter = "F" -> [st EXCEPT !.feedrate = word.value]
           [] OTHER -> st
    ELSE CASE word.letter = "X" -> [st EXCEPT !.posX = @ + word.value]
           [] word.letter = "Y" -> [st EXCEPT !.posY = @ + word.value]
           [] word.letter = "Z" -> [st EXCEPT !.posZ = @ + word.value]
           [] word.letter = "F" -> [st EXCEPT !.feedrate = @ + word.value]
           [] OTHER -> st

\* ModalGCodeParser.applyWord
applyWord(st, absolute, word) ==
    IF absolute
    THEN CASE word.letter = "X" -> [st EXCEPT !.posX = word.value]
           [] word.letter = "Y" -> [st EXCEPT !.posY = word.value]
           [] word.letter = "Z" -> [st EXCEPT !.posZ = word.value]
           [] word.letter = "F" -> [st EXCEPT !.feedrate = word.value]
           [] OTHER -> st
    ELSE CASE word.letter = "X" -> [st EXCEPT !.posX = @ + word.value]
           [] word.letter = "Y" -> [st EXCEPT !.posY = @ + word.value]
           [] word.letter = "Z" -> [st EXCEPT !.posZ = @ + word.value]
           [] word.letter = "F" -> [st EXCEPT !.feedrate = word.value]
           [] OTHER -> st

\* for word in ...: self.applyWord(word)
RECURSIVE applyWords(_, _, _)
applyWords(st, absolute, ws) ==
    IF ws = <<>> THEN st
    ELSE applyWords(applyWord(st, absolute, Head(ws)), absolute, Tail(ws))

Abs(n) == IF n < 0 THEN -n ELSE n
InBounds(st) ==
    /\ Abs(st.posX) <= MaxPos /\ Abs(st.posY) <= MaxPos /\ Abs(st.posZ) <= MaxPos

\* the fault handler re-applies the parameter words of the gcode; a fault is
\* modelled only where the re-applied position stays within MaxPos
FaultInBounds ==
    ctx = "handler" \/ InBounds(applyWords(ModalRec, absolutepositionmode, gcode.params))

\* ModalGCodeParser.run: for line_text in self.input -- the input has ended
EndOfInput ==
    /\ pc = "run_next"
    /\ pc' = "done"
    /\ UNCHANGED <<rret, modal, offs, serv, inp, exe, obs, stoppedAt>>

\* run reads a line; parseLine applies the bare words of the line
ReadLine ==
    /\ pc = "run_next"
    /\ ngcodes < MaxGcodes
    /\ \E ws \in ParamSeqs :
        LET st == applyWords(ModalRec, absolutepositionmode, ws) IN
        /\ InBounds(st)
        /\ posX' = st.posX /\ posY' = st.posY /\ posZ' = st.posZ
        /\ feedrate' = st.feedrate
    /\ lineEmpty' = TRUE
    /\ pc' = "pl_next"
    /\ UNCHANGED <<rret, mode, absolutepositionmode, spindleOn, offs, serv,
                   ngcodes, gcode, kont, reattempt, exe, obs, stoppedAt>>

\* parseLine: for gcode in sorted(line.block.gcodes): self.executeGCode(gcode)
NextGcode ==
    /\ pc = "pl_next"
    /\ ngcodes < MaxGcodes
    /\ \E g \in Gcodes :
        /\ InBounds(applyWords(ModalRec, absolutepositionmode, g.params))
        /\ gcode' = g
    /\ ngcodes' = ngcodes + 1 /\ lineEmpty' = FALSE /\ kont' = "loop"
    /\ pc' = "eg_try"
    /\ UNCHANGED <<rret, modal, offs, serv, reattempt, exe, obs, stoppedAt>>

\* variant: a line without a gcode always moves linearly
ModeGcode_Linear == [kind |-> "G1", params |-> <<>>, value |-> 0]

\* self.mode(): a gcode of the class of the last motion, without words
ModeGcode == [kind |-> mode, params |-> <<>>, value |-> 0]

\* parseLine: the gcodes of the line are exhausted;
\* if len(line.block.gcodes) == 0: self.executeGCode(self.mode())
EndOfLine ==
    /\ pc = "pl_next"
    /\ IF lineEmpty
       THEN /\ gcode' = ModeGcode
            /\ ngcodes' = ngcodes + 1
            /\ kont' = "end"
            /\ pc' = "eg_try"
       ELSE /\ pc' = "run_next"
            /\ UNCHANGED <<ngcodes, gcode, kont>>
    /\ UNCHANGED <<rret, modal, offs, serv, lineEmpty, reattempt, exe, obs,
                   stoppedAt>>

\* where parseLine continues when executeGCode returns
AfterGcode == IF kont = "loop" THEN "pl_next" ELSE "run_next"

\* executeGCode returns to parseLine; its locals are gone
ReturnFromGcode ==
    /\ pc' = AfterGcode
    /\ gcode' = NoGcode /\ kont' = "loop" /\ reattempt' = FALSE

\* variant: the feed rate is passed on unclamped
LimitFeedrate_None(f) == f

\* if(self.feedrate > 1620): self.feedrate = 1620
LimitFeedrate(f) == IF f > FEED_LIMIT THEN FEED_LIMIT ELSE f

\* variant: G0 is called with the logical position, the offset forgotten
RapidCommand_NoOffset(st) == G0Command(st.posX, st.posY, st.posZ)

\* the frame G0 builds from the modal state
RapidCommand(st) ==
    G0Command(st.posX + offsetX, st.posY + offsetY, st.posZ + offsetZ)

\* the frame G1 builds from the modal state
LinearCommand(st) ==
    G1Command(st.posX + offsetX, st.posY + offsetY, st.posZ + offsetZ,
              LimitFeedrate(st.feedrate))

\* M3 and M4 switch the spindle on (0x01), M5 switches it off (0x00)
SpindleState(kind) == IF kind = "M5" THEN 0 ELSE 1

\* entry of executeCommand(command): count = 0
CallExecute(cmd) ==
    /\ command' = cmd /\ count' = 0 /\ response' = "none"
    /\ tx' = 0 /\ nack' = 0
    /\ pc' = "ex_write"

\* executeGCode, the try block: apply the parameter words, then switch on the
\* type of the gcode
Dispatch ==
    /\ pc = "eg_try"
    /\ LET st == applyWords(ModalRec, absolutepositionmode, gcode.params)
           k == gcode.kind
       IN
       /\ posX' = st.posX /\ posY' = st.posY /\ posZ' = st.posZ
       /\ CASE k = "F" ->
                 /\ feedrate' = applyWord(st, absolutepositionmode,
                                    [letter |-> "F", value |-> gcode.value]).feedrate
                 /\ ReturnFromGcode
                 /\ UNCHANGED <<absolutepositionmode, command, count, response,
                                tx, nack>>
            [] k = "G0" ->
                 /\ CallExecute(RapidCommand(st))
                 /\ UNCHANGED <<feedrate, absolutepositionmode, gcode, kont,
                                reattempt>>
            [] k = "G1" ->
                 /\ feedrate' = LimitFeedrate(st.feedrate)
                 /\ CallExecute(LinearCommand(st))
                 /\ UNCHANGED <<absolutepositionmode, gcode, kont, reattempt>>
            [] k \in NotImplemented ->
                 /\ pc' = "crashed_unsupported"
                 /\ UNCHANGED <<feedrate, absolutepositionmode, command, count,
                                response, tx, nack, gcode, kont, reattempt>>
            [] k \in DistanceKinds ->
                 /\ absolutepositionmode' = (k = "G90")
                 /\ ReturnFromGcode
                 /\ UNCHANGED <<feedrate, command, count, response, tx, nack>>
            [] k \in SpindleKinds ->
                 /\ CallExecute(SpindleCommand(SpindleState(k)))
                 /\ UNCHANGED <<feedrate, absolutepositionmode, gcode, kont,
                                reattempt>>
            [] OTHER ->
                 /\ ReturnFromGcode
                 /\ UNCHANGED <<feedrate, absolutepositionmode, command, count,
                                response, tx, nack>>
    /\ UNCHANGED <<rret, mode, spindleOn, offs, serv, ngcodes, lineEmpty,
                   ctx, lastFrame, unconfirmed, posAtFault, handling,
                   recovered, err, stoppedAt>>

\* ------------------------------------------------ DeskCNC.executeCommand
\* a SerialException leaves executeCommand: inside the try block of
\* executeGCode it reaches the except clause, inside the except clause
\* (self.device.M3() of the recovery) it leaves executeGCode, parseLine and run
\* and reaches main
RaiseTarget == IF ctx = "try" THEN "eg_except" ELSE "crashed_serial"

\* raise serial.SerialException: the frames of executeCommand are unwound
Raise(kind) ==
    /\ err' = kind
    /\ posAtFault' = <<posX, posY, posZ>>
    /\ handling' = TRUE
    /\ command' = <<>> /\ count' = 0 /\ response' = "none"
    /\ pc' = RaiseTarget

\* variant: one retry too many
RetryAllowed_Three(c) == c < MAX_RETRY + 1

\* if count < 2: self.executeCommand(command, count + 1)
RetryAllowed(c) == c < MAX_RETRY

\* variant: a wrong acknowledgement is retried before the ready-poll
AfterAck_RetryFirst(r) == IF r = "ok" THEN "ex_poll" ELSE "ex_write"

\* after response = self._ser.read(1): while not self.machineReady()
AfterAck(r) == "ex_poll"

\* msg = command + checksum(command); self._ser.write(msg)
WriteCommand ==
    /\ pc = "ex_write"
    /\ \E ok \in BOOLEAN :
        IF ok
        THEN /\ lastFrame' = command \o checksum(command)
             /\ tx' = tx + 1
             /\ unconfirmed' = TRUE
             /\ pc' = "ex_ack"
             /\ UNCHANGED <<err, posAtFault, handling, command, count, response>>
        ELSE /\ FaultInBounds
             /\ Raise("transport")
             /\ UNCHANGED <<lastFrame, tx, unconfirmed>>
    /\ UNCHANGED <<rret, modal, offs, serv, inp, ctx, nack, recovered,
                   stoppedAt>>

\* response = self._ser.read(1): the accepted marker 0x02, another byte or
\* nothing (timeout), or the read raises SerialException
ReadAck ==
    /\ pc = "ex_ack"
    /\ \E r \in {"ok", "bad", "ioerror"} :
        /\ r # "ok" => FaultInBounds
        /\ IF r = "ioerror"
           THEN /\ Raise("transport")
                /\ UNCHANGED nack
           ELSE /\ response' = r
                /\ nack' = IF r = "bad" THEN nack + 1 ELSE nack
                /\ pc' = AfterAck(r)
                /\ UNCHANGED <<err, posAtFault, handling, command, count>>
    /\ UNCHANGED <<rret, modal, offs, serv, inp, ctx, lastFrame, tx,
                   unconfirmed, recovered, stoppedAt>>

\* one round of: while not self.machineReady(): time.sleep(0.001)
\* followed, once the device is ready, by the check of the acknowledgement:
\* if not response == b'\x02': retry or raise
MachineReady ==
    /\ pc = "ex_poll"
    /\ \E out \in {"done", "busy", "empty", "ioerror"} :
        /\ lastFrame' = IF out = "ioerror" THEN lastFrame ELSE ReadyMsg
        /\ unconfirmed' = IF out = "done" THEN FALSE ELSE unconfirmed
        /\ CASE out \in {"empty", "ioerror"} ->
                 /\ FaultInBounds
                 /\ Raise("transport")
             [] out = "busy" ->
                 /\ pc' = "ex_poll"
                 /\ UNCHANGED <<err, posAtFault, handling, command, count, response>>
             [] out = "done" /\ response = "ok" ->
                 /\ pc' = "ex_ret"
                 /\ UNCHANGED <<err, posAtFault, handling, command, count, response>>
             [] out = "done" /\ response # "ok" /\ RetryAllowed(count) ->
                 /\ count' = count + 1
                 /\ pc' = "ex_write"
                 /\ UNCHANGED <<err, posAtFault, handling, command, response>>
             [] OTHER ->
                 Raise("protocol")
    /\ UNCHANGED <<rret, modal, offs, serv, inp, ctx, tx, nack, recovered,
                   stoppedAt>>

\* executeCommand has returned to G0, G1 or spindle and these to executeGCode:
\* the assignment that follows the device call, or, for the M3 of the
\* recovery, the call self.executeGCode(gcode)
ExecuteReturn ==
    /\ pc = "ex_ret"
    /\ IF ctx = "handler"
       THEN /\ ctx' = "try" /\ pc' = "eg_try"
            /\ UNCHANGED <<mode, spindleOn, gcode, kont, reattempt>>
       ELSE /\ mode' = IF gcode.kind \in MotionKinds THEN gcode.kind ELSE mode
            /\ spindleOn' = CASE gcode.kind \in {"M3", "M4"} -> TRUE
                              [] gcode.kind = "M5" -> FALSE
                              [] OTHER -> spindleOn
            /\ ReturnFromGcode
            /\ UNCHANGED ctx
    /\ command' = <<>> /\ count' = 0 /\ response' = "none"
    /\ tx' = 0 /\ nack' = 0
    /\ UNCHANGED <<rret, posX, posY, posZ, feedrate, absolutepositionmode,
                   offs, serv, ngcodes, lineEmpty, lastFrame, unconfirmed,
                   posAtFault, handling, recovered, err, stoppedAt>>

\* --------------------------------- executeGCode, the except clause
\* except serial.SerialException as err: self.device.restart_device()
Catch ==
    /\ pc = "eg_except"
    /\ rret' = "recover"
    /\ tx' = 0 /\ nack' = 0
    /\ pc' = "rs_close"
    /\ UNCHANGED <<modal, offs, serv, inp, exe, lastFrame, unconfirmed,
                   posAtFault, handling, recovered, err, stoppedAt>>

\* variant: the new offset is added to the old one
RecoveryOffset_Add(p, o) == o - p

\* self.offsetX = -self.posX
RecoveryOffset(p, o) == -p

\* variant: the spindle command is re-issued after every recovery
ReissueSpindle_Always == TRUE

\* if self.spindleOn: self.device.M3()
ReissueSpindle == spindleOn

\* restart_device has returned: set the offsets, re-issue the spindle
\* command if the spindle was on, execute the gcode again
Recover ==
    /\ pc = "rec_offset"
    /\ offsetX' = RecoveryOffset(posX, offsetX)
    /\ offsetY' = RecoveryOffset(posY, offsetY)
    /\ offsetZ' = RecoveryOffset(posZ, offsetZ)
    /\ recovered' = TRUE /\ handling' = FALSE /\ err' = "none"
    /\ reattempt' = TRUE
    /\ IF ReissueSpindle
       THEN /\ ctx' = "handler"
            /\ CallExecute(SpindleCommand(1))
       ELSE /\ pc' = "eg_try"
            /\ UNCHANGED <<ctx, command, count, response, tx, nack>>
    /\ UNCHANGED <<rret, modal, serv, ngcodes, lineEmpty, gcode, kont,
                   lastFrame, unconfirmed, posAtFault, stoppedAt>>

\* ------------------------------------------------------------ the operator
\* KeyboardInterrupt is raised wherever the thread is; only run() catches it
\* (except KeyboardInterrupt: pass), nothing below does
Interrupt ==
    /\ pc \notin Terminal
    /\ stoppedAt' = pc
    /\ pc' = "stopped"
    /\ UNCHANGED <<rret, modal, offs, serv, inp, exe, obs>>

Next ==
    \/ RestartClose \/ RestartLoop \/ RestartOpen \/ Reset \/ SendFirmware
    \/ RestartExcept
    \/ EndOfInput \/ ReadLine \/ NextGcode \/ EndOfLine \/ Dispatch
    \/ WriteCommand \/ ReadAck \/ MachineReady \/ ExecuteReturn
    \/ Catch \/ Recover
    \/ Interrupt

Spec == Init /\ [][Next]_vars

\* The thread of restart_device goes on running: close, the loop test and
\* the except clause are taken when they are due. Where the port can be
\* opened and the device can answer reset and firmware load as expected again
\* and again, it eventually does so (the premise of the bring-up liveness).
BringUpFairness ==
    /\ WF_vars(RestartClose) /\ WF_vars(RestartLoop) /\ WF_vars(RestartExcept)
    /\ SF_vars(RestartOpen /\ is_open')
    /\ SF_vars(Reset /\ resetOk')
    /\ SF_vars(SendFirmware /\ fwOk')

SpecLive == Init /\ [][Next]_vars /\ BringUpFairness

TypeOK ==
    /\ pc \in Terminal \cup RestartPcs \cup ExecPcs
                \cup {"run_next", "pl_next", "eg_try", "eg_except"}
    /\ count \in 0..MAX_RETRY
    /\ ngcodes \in 0..MaxGcodes
    /\ InBounds(ModalRec)

\* ------------------------------ applyWord and encodeFeedrate on their own
\* Words and feed rates the two functions are applied to
WordF(v) == [letter |-> "F", value |-> v]
PureWords == {WordX(10), WordX(-3), WordY(-3), WordZ(10), WordF(1000)}
EncFeeds == {50, 900, 1000, 1620, 3000, INF_FEEDRATE}

InWordBounds(st) ==
    /\ Abs(st.posX) <= MaxWordPos /\ Abs(st.posY) <= MaxWordPos
    /\ Abs(st.posZ) <= MaxWordPos

\* a fresh ModalGCodeParser in either distance mode; nothing is connected
InitPure ==
    /\ pc = "applyWord" /\ rret = "init"
    /\ is_open = FALSE /\ resetOk = FALSE /\ fwOk = FALSE
    /\ posX = 0 /\ posY = 0 /\ posZ = 0
    /\ offsetX = 0 /\ offsetY = 0 /\ offsetZ = 0
    /\ feedrate = DEFAULT_FEEDRATE
    /\ mode = "G1"
    /\ absolutepositionmode \in BOOLEAN
    /\ spindleOn = FALSE
    /\ ngcodes = 0 /\ lineEmpty = TRUE /\ gcode = NoGcode /\ kont = "loop"
    /\ reattempt = FALSE
    /\ ctx = "try" /\ command = <<>> /\ count = 0 /\ response = "none"
    /\ lastFrame = <<>> /\ tx = 0 /\ nack = 0 /\ unconfirmed = FALSE
    /\ posAtFault = <<0, 0, 0>> /\ handling = FALSE /\ recovered = FALSE
    /\ err = "none"
    /\ stoppedAt = "none"

\* self.applyWord(word); gcode records the word that was applied
ApplyWordStep ==
    /\ \E w \in PureWords :
        LET st == applyWord(ModalRec, absolutepositionmode, w) IN
        /\ InWordBounds(st)
        /\ posX' = st.posX /\ posY' = st.posY /\ posZ' = st.posZ
        /\ feedrate' = st.feedrate
        /\ gcode' = [kind |-> "applyWord", params |-> <<w>>, value |-> 0]
    /\ command' = <<>>
    /\ UNCHANGED <<pc, rret, mode, absolutepositionmode, spindleOn, offs, serv,
                   ngcodes, lineEmpty, kont, reattempt, count, response, ctx,
                   obs, stoppedAt>>

\* encodeFeedrate(val); gcode records the argument, command the result
EncodeFeedStep ==
    /\ \E f \in EncFeeds :
        /\ command' = encodeFeedrate(f)
        /\ gcode' = [kind |-> "encodeFeedrate", params |-> <<>>, value |-> f]
    /\ UNCHANGED <<pc, rret, modal, offs, serv, ngcodes, lineEmpty, kont,
                   reattempt, count, response, ctx, obs, stoppedAt>>

NextPure == ApplyWordStep \/ EncodeFeedStep

SpecPure == InitPure /\ [][NextPure]_vars

\* ------------------------------------------------- reading frames back
IsCommandFrame(f, opcode) == Len(f) = 24 /\ f[1] = 64 /\ f[2] = opcode
IsRapid(f) == IsCommandFrame(f, 78)
IsLinear(f) == IsCommandFrame(f, 77)
IsMotion(f) == IsRapid(f) \/ IsLinear(f)

\* signed value of 4 little-endian bytes, unsigned value of 2
Signed32(b) ==
    b[1] + 256 * b[2] + 65536 * b[3]
        + 16777216 * (IF b[4] >= 128 THEN b[4] - 256 ELSE b[4])
Unsigned16(b) == b[1] + 256 * b[2]

FrameX(f) == Signed32(SubSeq(f, 3, 6))
FrameY(f) == Signed32(SubSeq(f, 7, 10))
FrameZ(f) == Signed32(SubSeq(f, 11, 14))
FrameFeed(f) == Unsigned16(SubSeq(f, 15, 16))

\* steps of a length in mm: 200 / 3 steps per mm, truncated toward zero
Steps(mm) == IF mm >= 0 THEN (200 * mm) \div 3 ELSE -((200 * (-mm)) \div 3)

\* pcs outside restart_device
OutsideRestart ==
    {"run_next", "pl_next", "eg_try", "eg_except", "rec_offset"} \cup ExecPcs

\* ---------------------------------------------------------------- claims

\* C1: within one execute call the command frame is written at most three
\* times; when every acknowledgement was wrong the call ends, after the third
\* write, by raising the protocol error to its caller (the except clause or,
\* from the recovery's M3, main) and never returns normally.
C1_ThreeAttemptsThenError ==
    /\ tx <= 3 /\ nack <= tx
    /\ (err = "protocol" /\ pc \in {"eg_except", "crashed_serial"})
            => (tx = 3 /\ nack = 3)
    /\ nack = 3 => pc \in {"ex_poll", "eg_except", "crashed_serial", "stopped"}
    /\ pc = "ex_ret" => (response = "ok" /\ nack < tx)

C1_Witness == pc = "eg_except" /\ err = "protocol" /\ tx = 3 /\ nack = 3

\* C2: a command frame is written only when no earlier command frame of the
\* session is still without its 'done' status answer (an earlier frame is
\* confirmed by the ready-poll or discarded by a completed restart).
C2_OneCommandAtATime == [][tx' = tx + 1 => ~unconfirmed]_vars

C2_Witness == pc = "ex_ack" /\ tx = 2 /\ count = 1 /\ unconfirmed

\* C3: no SerialException raised while a gcode is dispatched leaves
\* executeGCode and reaches main.
C3_NoTransportErrorEscapes == pc # "crashed_serial"

\* C4: outside restart_device the port is open and, on this connection, a
\* reset has succeeded and after it a firmware load; the firmware is sent only
\* on an open connection on which a reset has succeeded.
C4_RestartReturnsReady ==
    /\ pc = "rs_fw" => (is_open /\ resetOk)
    /\ pc \in OutsideRestart => (is_open /\ resetOk /\ fwOk)

C4_Witness == pc = "rec_offset" /\ is_open /\ resetOk /\ fwOk

\* C5: once a fault has been recovered the offset is the negated position of
\* the moment of the fault, and a motion frame written in absolute mode
\* carries the position plus that offset.
C5_OffsetAfterRecovery ==
    (recovered /\ ~handling) =>
        /\ offsetX = -posAtFault[1]
        /\ offsetY = -posAtFault[2]
        /\ offsetZ = -posAtFault[3]
        /\ (absolutepositionmode /\ IsMotion(lastFrame)) =>
                /\ FrameX(lastFrame) = Steps(-(posX - posAtFault[1]))
                /\ FrameY(lastFrame) = Steps(posY - posAtFault[2])
                /\ FrameZ(lastFrame) = Steps(posZ - posAtFault[3])

C5_Witness ==
    /\ recovered /\ ~handling /\ absolutepositionmode
    /\ posAtFault[1] # 0 /\ posAtFault[1] # posX
    /\ IsMotion(lastFrame) /\ FrameX(lastFrame) # 0

\* C6: a motion frame carries position plus offset on each axis, X negated;
\* the offset is zero as long as no fault has been recovered; only the
\* recovery changes the offset.
C6_FramePositionPlusOffset ==
    /\ [](/\ IsMotion(lastFrame) =>
                /\ FrameX(lastFrame) = Steps(-(posX + offsetX))
                /\ FrameY(lastFrame) = Steps(posY + offsetY)
                /\ FrameZ(lastFrame) = Steps(posZ + offsetZ)
          /\ ~recovered => (offsetX = 0 /\ offsetY = 0 /\ offsetZ = 0))
    /\ [][offs' # offs => (pc = "rec_offset" /\ recovered')]_vars

C6_Witness ==
    /\ IsRapid(lastFrame) /\ recovered
    /\ offsetX # 0 /\ posX + offsetX # 0 /\ posZ + offsetZ # 0

\* C7: after executeCommand has raised the protocol error the gcode is
\* abandoned: no session restart is run for it.
C7_ProtocolErrorAbandons == ~(err = "protocol" /\ pc = "rec_offset")

\* C8: dispatching G2, G3, G18, G19 or G20 writes no frame, leaves the
\* connection alone and ends the run: the program takes no further step.
C8_UnsupportedAborts ==
    [][/\ (pc = "eg_try" /\ gcode.kind \in {"G2", "G3", "G18", "G19", "G20"})
            => /\ pc' \in {"crashed_unsupported", "stopped"}
               /\ UNCHANGED <<lastFrame, tx, unconfirmed, serv, ngcodes>>
       /\ pc = "crashed_unsupported" => FALSE]_vars

C8_Witness == pc = "crashed_unsupported" /\ gcode.kind = "G20" /\ ngcodes = 2

\* C9: the run does not stop on an interrupt while a command frame awaits
\* its ready confirmation.
C9_InterruptFinishesCommand == pc = "stopped" => ~unconfirmed

\* C10: a linear-move frame carries the encoding of the modal feed rate of
\* its dispatch, limited to 1620 mm/min: never a faster one (encoded value
\* below 3378400 / 1620 = 2085).
C10_FeedrateLimited ==
    /\ [](IsLinear(lastFrame) =>
            /\ FrameFeed(lastFrame) >= 2085
            /\ feedrate <= 1620
            /\ FrameFeed(lastFrame) = FrameFeed(G1Command(0, 0, 0, feedrate)))
    /\ [][(pc = "eg_try" /\ gcode.kind = "G1" /\ pc' = "ex_write") =>
            /\ IsLinear(command' \o checksum(command'))
            /\ FrameFeed(command') =
                 IF feedrate > 1620 THEN 2085 ELSE FEED_K \div feedrate
            /\ feedrate' = IF feedrate > 1620 THEN 1620 ELSE feedrate]_vars

C10_Witness ==
    IsLinear(lastFrame) /\ feedrate = 1620 /\ FrameFeed(lastFrame) = 2085

\* C11: when a line carries bare words only, its words are in the modal state
\* before anything is dispatched; then one gcode of the class of the last
\* motion is dispatched, without words of its own; its frame is a rapid or a
\* linear frame accordingly and carries the position (and, linear, the feed
\* rate) the bare words produced; when it returns the line is finished.
C11_BareWordsMoveInLastMode ==
    /\ [][/\ (pc = "pl_next" /\ lineEmpty /\ lineEmpty' /\ pc' # "stopped") =>
              /\ pc' = "eg_try" /\ kont' = "end"
              /\ gcode'.kind = mode /\ gcode'.params = <<>>
              /\ UNCHANGED <<posX, posY, posZ, feedrate, lastFrame>>
          /\ (kont = "loop" /\ kont' = "end") => (pc = "pl_next" /\ lineEmpty)]_vars
    /\ [][(kont = "end" /\ pc = "ex_ret" /\ ctx = "try") =>
            pc' \in {"run_next", "stopped"}]_vars
    /\ [](kont = "end" /\ pc = "ex_ack" /\ ctx = "try" =>
            /\ gcode.kind = mode
            /\ IF mode = "G0" THEN IsRapid(lastFrame)
               ELSE /\ IsLinear(lastFrame)
                    /\ FrameFeed(lastFrame) = FEED_K \div feedrate
            /\ FrameX(lastFrame) = Steps(-(posX + offsetX))
            /\ FrameY(lastFrame) = Steps(posY + offsetY)
            /\ FrameZ(lastFrame) = Steps(posZ + offsetZ))

C11_Witness ==
    /\ kont = "end" /\ pc = "ex_ack" /\ ctx = "try" /\ mode = "G0"
    /\ IsRapid(lastFrame) /\ posY = 1 /\ FrameY(lastFrame) = 66

\* C13: every frame written (reset, status query, rapid, linear, spindle)
\* ends with the XOR of the bytes before it: each bit is set in an even
\* number of bytes of the frame.
C13_FrameChecksum ==
    [][lastFrame' # lastFrame =>
        /\ lastFrame' # <<>>
        /\ lastFrame'[Len(lastFrame')]
              = XorFold(SubSeq(lastFrame', 1, Len(lastFrame') - 1), 0)
        /\ \A b \in 0..7 :
              Cardinality({i \in 1..Len(lastFrame') :
                              (lastFrame'[i] \div (2 ^ b)) % 2 = 1}) % 2 = 0]_vars

C13_Witness ==
    /\ IsRapid(lastFrame) /\ FrameX(lastFrame) # 0
    /\ lastFrame[24] # 0 /\ pc = "ex_ack"

\* C15: the except clause first runs the restart; when that has returned
\* (port open, reset and firmware done) it sets the offset; then, if and only
\* if the spindle was on, it sends the spindle-on frame; only after that
\* frame is confirmed, or at once when the spindle was off, the same gcode is
\* executed again. With the spindle off the recovery writes no frame.
C15_RecoveryOrder ==
    /\ [][/\ (pc = "eg_except" /\ pc' # "stopped") => pc' = "rs_close"
          /\ offs' # offs => pc = "rec_offset"
          /\ (pc = "rec_offset" /\ pc' # "stopped") =>
                /\ is_open /\ resetOk /\ fwOk
                /\ offsetX' = -posX /\ offsetY' = -posY /\ offsetZ' = -posZ
                /\ gcode' = gcode
                /\ IF spindleOn
                   THEN /\ pc' = "ex_write" /\ ctx' = "handler"
                        /\ command' = <<64, 79>> \o Zeros(14) \o <<2, 1>>
                                        \o Zeros(5)
                   ELSE /\ pc' = "eg_try" /\ ctx' = "try"
                        /\ UNCHANGED <<lastFrame, tx, command>>
          /\ (pc # "eg_try" /\ pc' = "eg_try" /\ reattempt') =>
                \/ pc = "rec_offset" /\ ~spindleOn
                \/ pc = "ex_ret" /\ ctx = "handler" /\ spindleOn
                     /\ gcode' = gcode]_vars
    /\ [](ctx = "handler" => spindleOn /\ reattempt)

C15_Witness ==
    /\ pc = "eg_try" /\ reattempt /\ spindleOn /\ lastFrame = ReadyMsg
    /\ gcode.kind = "G0"

\* C16: the gcode executed again by the recovery leaves the position where
\* it was when the fault was raised.
C16_PositionKept ==
    (reattempt /\ pc \in ExecPcs /\ ctx = "try")
        => <<posX, posY, posZ>> = posAtFault

\* the steps of restart_device between its call and its return
RestartInner == RestartPcs \ {"rec_offset"}

\* C17: an I/O error of open, reset or firmware load stays inside
\* restart_device: the port is closed and the loop starts again with open;
\* restart_device is left only by its return, with the port open and the
\* firmware loaded, and it raises nothing.
C17_BringUpErrorContained ==
    [][/\ (pc = "rs_except" /\ pc' # "stopped") =>
              (pc' = "rs_loop" /\ ~is_open')
       /\ (pc = "rs_loop" /\ ~is_open /\ pc' # "stopped") => pc' = "rs_open"
       /\ pc \in RestartInner =>
              /\ pc' \in RestartInner \cup {"run_next", "rec_offset", "stopped"}
              /\ UNCHANGED <<err, handling>>
       /\ (pc \in RestartInner /\ pc' \in {"run_next", "rec_offset"}) =>
              (pc = "rs_loop" /\ is_open /\ resetOk /\ fwOk)]_vars

C17_Witness == pc = "rs_except" /\ is_open /\ resetOk /\ rret = "recover"

\* C18: a reset whose answer does not match is followed by another reset, a
\* firmware load whose answer does not match by another firmware load, on
\* the same open connection and without a new reset frame.
C18_MismatchRepeatsStep ==
    [][/\ (pc = "rs_reset" /\ pc' \notin {"rs_except", "stopped"}) =>
              /\ is_open /\ is_open' /\ lastFrame' = COM_RESET
              /\ IF resetOk' THEN pc' = "rs_fw" ELSE pc' = "rs_reset"
       /\ (pc = "rs_fw" /\ pc' \notin {"rs_except", "stopped"}) =>
              /\ UNCHANGED <<is_open, resetOk, lastFrame>>
              /\ IF fwOk' THEN pc' = "rs_loop" ELSE pc' = "rs_fw"]_vars

C18_Witness ==
    pc = "rs_reset" /\ lastFrame = COM_RESET /\ is_open /\ ~resetOk

\* the word applyWord has just been applied to
AppliedWord == gcode.params[1]

\* C12: applyWord with an X, Y or Z word: in absolute mode the axis takes the
\* word's value, in incremental mode the value is added to it; the other two
\* axes and the feed rate stay as they are (X10 then X-3: 7 incremental, -3
\* absolute).
C12_AxisWordFollowsDistanceMode ==
    [][gcode'.kind = "applyWord" =>
        LET w == gcode'.params[1]
            new(old) == IF absolutepositionmode THEN w.value ELSE old + w.value
        IN
        /\ w.letter = "X" =>
              (posX' = new(posX) /\ UNCHANGED <<posY, posZ, feedrate>>)
        /\ w.letter = "Y" =>
              (posY' = new(posY) /\ UNCHANGED <<posX, posZ, feedrate>>)
        /\ w.letter = "Z" =>
              (posZ' = new(posZ) /\ UNCHANGED <<posX, posY, feedrate>>)]_vars

C12_Witness ==
    /\ ~absolutepositionmode /\ gcode.kind = "applyWord"
    /\ AppliedWord = WordX(-3) /\ posX = 7 /\ posY = -3 /\ posZ = 10

\* the integer encodeFeedrate has just encoded, and its argument
EncodedFeed == command[1] + 256 * command[2]

C20_FeedWordFollowsDistanceMode ==
    [][(gcode'.kind = "applyWord" /\ gcode'.params[1].letter = "F") =>
          feedrate' = IF absolutepositionmode
                      THEN gcode'.params[1].value
                      ELSE feedrate + gcode'.params[1].value]_vars

\* C20, amended: an F word replaces the feed rate in absolute and in
\* incremental mode alike and leaves the position as it is.
C20_FeedWordReplaces ==
    [][(gcode'.kind = "applyWord" /\ gcode'.params[1].letter = "F") =>
          /\ feedrate' = gcode'.params[1].value
          /\ UNCHANGED <<posX, posY, posZ>>]_vars

C20_Witness ==
    /\ ~absolutepositionmode /\ gcode.kind = "applyWord"
    /\ AppliedWord = WordF(1000) /\ feedrate = 1000 /\ posX = 10

\* C19: whenever restart_device is running and the port and the device
\* recover as BringUpFairness says, restart_device returns to its caller
\* (unless the operator interrupts the run first), whatever open failures,
\* mismatches and I/O errors came before.
C19_BringUpReturns ==
    (pc \in RestartInner) ~> (pc \in {"run_next", "rec_offset", "stopped"})

C19_Witness ==
    /\ pc = "run_next" /\ ngcodes = 0 /\ rret = "init"
    /\ is_open /\ resetOk /\ fwOk /\ lastFrame = COM_RESET

====
